---- MODULE Spec2Model ----
(***************************************************************************)
(* A model of fire.hpp (bojro/fire-hpp): the command line matcher          *)
(* fire::_matcher, the identifier class, the deferred error slot           *)
(* fire::_first and the conversions of fire::arg.                          *)
(*                                                                         *)
(* A std::string is a sequence of one-character strings, so that hyphen    *)
(* counting, find('='), substr and the per-character expansion of "-abc"   *)
(* are computed as the code computes them.  An optional<T> is <<>> (no     *)
(* value) or <<v>>.  A message is a record [kind, items]: kind is the      *)
(* fixed text of the message and items the strings spliced into it.        *)
(***************************************************************************)
EXTENDS Integers, Sequences, FiniteSets, TLC

(***************************************************************************)
(* Bounds of the model                                                     *)
(***************************************************************************)
\* longest token list drawn by the parsing specification
MaxArgs == 2
\* most declarations (conversions of a fire::arg) one run makes
MaxDecls == 2
\* most digits of a decimal string handed to the integer conversion
MaxDigits == 2
\* bits of long long in the model (64 in the build); narrower targets follow
LLBits == 6

(***************************************************************************)
(* Program constants                                                       *)
(***************************************************************************)
failure_code == 1
no_pos_order == 1000000

(***************************************************************************)
(* Characters and strings                                                  *)
(***************************************************************************)
Digits == {"0", "1", "2", "3", "4", "5", "6", "7", "8", "9"}

\* no character counts as a digit
isdigit_none(c) == c \notin Digits \cup {c}

isdigit(c) == c \in Digits

\* tolower over the alphabet of the model
tolower(c) ==
    CASE c = "N" -> "n"
      [] c = "H" -> "h"
      [] c = "X" -> "x"
      [] OTHER -> c

\* the character codes deciding std::string's operator<
Ascii(c) ==
    CASE c = " " -> 32 [] c = "+" -> 43 [] c = "-" -> 45 [] c = "." -> 46
      [] c = "0" -> 48 [] c = "1" -> 49 [] c = "2" -> 50 [] c = "3" -> 51
      [] c = "4" -> 52 [] c = "5" -> 53 [] c = "6" -> 54 [] c = "7" -> 55
      [] c = "8" -> 56 [] c = "9" -> 57 [] c = "=" -> 61
      [] c = "H" -> 72 [] c = "N" -> 78 [] c = "X" -> 88
      [] c = "a" -> 97 [] c = "b" -> 98 [] c = "c" -> 99 [] c = "e" -> 101
      [] c = "f" -> 102 [] c = "h" -> 104 [] c = "l" -> 108 [] c = "m" -> 109
      [] c = "n" -> 110 [] c = "p" -> 112 [] c = "u" -> 117 [] c = "v" -> 118
      [] c = "x" -> 120 [] c = "y" -> 121
      [] OTHER -> 127

DigitValue(c) == Ascii(c) - 48

RECURSIVE StrLess(_, _)
\* std::string operator<: lexicographic on the character codes
StrLess(a, b) ==
    IF b = <<>> THEN FALSE
    ELSE IF a = <<>> THEN TRUE
    ELSE IF Ascii(Head(a)) # Ascii(Head(b)) THEN Ascii(Head(a)) < Ascii(Head(b))
    ELSE StrLess(Tail(a), Tail(b))

LowerStr(s) == [i \in 1..Len(s) |-> tolower(s[i])]

\* s.find(c): the 1-based place of the first c in s, 0 for npos
Find(s, c) ==
    IF \E i \in 1..Len(s) : s[i] = c
    THEN CHOOSE i \in 1..Len(s) : s[i] = c /\ \A j \in 1..(i - 1) : s[j] # c
    ELSE 0

\* s.substr(k) with k counted from 0
SubstrFrom(s, k) == SubSeq(s, k + 1, Len(s))

\* hyphens counted no further than the second
count_hyphens_capped(s) ==
    IF Len(s) >= 2 /\ s[1] = "-" /\ s[2] = "-" THEN 2
    ELSE IF Len(s) >= 1 /\ s[1] = "-" THEN 1
    ELSE 0

RECURSIVE count_hyphens(_)
count_hyphens(s) ==
    IF s = <<>> \/ Head(s) # "-" THEN 0 ELSE 1 + count_hyphens(Tail(s))

RECURSIVE to_string(_)
\* std::to_string of a non-negative int
to_string(n) ==
    IF n < 10 THEN <<CHOOSE c \in Digits : DigitValue(c) = n>>
    ELSE to_string(n \div 10) \o <<CHOOSE c \in Digits : DigitValue(c) = n % 10>>

(***************************************************************************)
(* fire::optional                                                          *)
(***************************************************************************)
None == <<>>
Some(v) == <<v>>
has_value(o) == o # <<>>
value_or(o, d) == IF o # <<>> THEN o[1] ELSE d

(***************************************************************************)
(* fire::identifier                                                        *)
(***************************************************************************)
\* identifier(): the vector sentinel
id_vector == [short |-> None, long |-> None, pos |-> None, vector |-> TRUE]
\* identifier(const char *name)
id_name(name) ==
    IF Len(name) = 1
    THEN [short |-> Some(name), long |-> None, pos |-> None, vector |-> FALSE]
    ELSE [short |-> None, long |-> Some(name), pos |-> None, vector |-> FALSE]
\* identifier(int pos)
id_pos(p) == [short |-> None, long |-> None, pos |-> Some(p), vector |-> FALSE]
\* identifier(const char *name1, const char *name2)
id_names(name1, name2) ==
    LET s == IF Len(name2) < Len(name1) THEN name2 ELSE name1
        l == IF Len(name2) < Len(name1) THEN name1 ELSE name2
    IN  [short |-> Some(s), long |-> Some(l), pos |-> None, vector |-> FALSE]

prepend_hyphens(name) ==
    IF Len(name) = 1 THEN <<"-">> \o name
    ELSE IF Len(name) >= 2 THEN <<"-", "-">> \o name
    ELSE name

\* identifier::_help as the constructors set it
help(id) ==
    IF id.vector THEN <<".", ".", ".">>
    ELSE IF has_value(id.pos) THEN <<"<">> \o to_string(id.pos[1]) \o <<">">>
    ELSE IF has_value(id.short) /\ has_value(id.long)
         THEN <<"-">> \o id.short[1] \o <<"|", "-", "-">> \o id.long[1]
    ELSE IF has_value(id.long) THEN <<"-", "-">> \o id.long[1]
    ELSE <<"-">> \o id.short[1]

\* identifier::_longer as the constructors set it
longer(id) ==
    IF id.vector THEN <<".", ".", ".">>
    ELSE IF has_value(id.pos) THEN <<"<">> \o to_string(id.pos[1]) \o <<">">>
    ELSE IF has_value(id.long) THEN <<"-", "-">> \o id.long[1]
    ELSE <<"-">> \o id.short[1]

\* the name operator< compares: the long name, else the short one, else ""
order_name(id) == LowerStr(value_or(id.long, value_or(id.short, <<>>)))

\* identifier::operator<
id_less(a, b) ==
    IF order_name(a) # order_name(b)
    THEN StrLess(order_name(a), order_name(b))
    ELSE value_or(a.pos, no_pos_order) < value_or(b.pos, no_pos_order)

overlaps(a, b) ==
    \/ has_value(a.long) /\ has_value(b.long) /\ a.long[1] = b.long[1]
    \/ has_value(a.short) /\ has_value(b.short) /\ a.short[1] = b.short[1]
    \/ has_value(a.pos) /\ has_value(b.pos) /\ a.pos[1] = b.pos[1]

\* only the long name is compared
contains_name_long(id, name) == has_value(id.long) /\ name = id.long[1]

\* identifier::contains(const std::string &)
contains_name(id, name) ==
    \/ has_value(id.short) /\ name = id.short[1]
    \/ has_value(id.long) /\ name = id.long[1]

\* identifier::contains(int)
contains_pos(id, p) == has_value(id.pos) /\ p = id.pos[1]

(***************************************************************************)
(* fire::_first<identifier, std::string>                                   *)
(***************************************************************************)
first_empty == [empty |-> TRUE, order |-> id_vector, value |-> [kind |-> "", items |-> <<>>]]

\* a slot that keeps the latest value handed to it
first_set_latest(f, order, val) == [empty |-> FALSE, order |-> order, value |-> val]

first_set(f, order, val) ==
    IF f.empty \/ id_less(order, f.order)
    THEN [empty |-> FALSE, order |-> order, value |-> val]
    ELSE f

Msg(kind, items) == [kind |-> kind, items |-> items]

(***************************************************************************)
(* The stages of _matcher::parse as functions of the token list.  Each     *)
(* returns its result and, in order, the messages of the deferred_assert   *)
(* calls that failed in it.                                                *)
(***************************************************************************)
\* a named token that takes the next token whether or not it has a '='
takes_next_any(s, hyphens, name_size) == hyphens >= 2 \/ name_size = 1

\* only a two-hyphen token takes the next token
takes_next_long(s, hyphens, name_size) == hyphens >= 2 /\ Find(s, "=") = 0

\* to_named after a named token: not "-abc" == "-a -b -c", no equation sign
takes_next(s, hyphens, name_size) ==
    (hyphens >= 2 \/ name_size = 1) /\ Find(s, "=") = 0

RECURSIVE separate_loop(_, _, _, _)
separate_loop(raw, i, acc, sa) ==
    IF i > Len(raw) THEN acc
    ELSE
      LET s == raw[i]
          hyphens == count_hyphens(s)
          name_size == Len(s) - hyphens
          faults == IF hyphens <= 2 THEN acc.faults
                    ELSE Append(acc.faults, Msg("too many hyphens: ", <<s>>))
      IN  IF hyphens = 2 \/ (hyphens = 1 /\ name_size >= 1 /\ ~isdigit(s[2]))
          THEN separate_loop(raw, i + 1,
                   [named |-> Append(acc.named, s),
                    positional |-> acc.positional,
                    to_named |-> takes_next(s, hyphens, name_size),
                    faults |-> faults], sa)
          ELSE IF sa /\ acc.to_named
          THEN separate_loop(raw, i + 1,
                   [named |-> Append(acc.named, s),
                    positional |-> acc.positional,
                    to_named |-> FALSE,
                    faults |-> faults], sa)
          ELSE separate_loop(raw, i + 1,
                   [named |-> acc.named,
                    positional |-> Append(acc.positional, s),
                    to_named |-> acc.to_named,
                    faults |-> faults], sa)

separate_named_positional(raw, sa) ==
    separate_loop(raw, 1,
        [named |-> <<>>, positional |-> <<>>, to_named |-> FALSE, faults |-> <<>>], sa)

RECURSIVE split_loop(_, _, _)
split_loop(nmd, i, acc) ==
    IF i > Len(nmd) THEN acc
    ELSE
      LET hyphened_name == nmd[i]
          hyphens == count_hyphens(hyphened_name)
          eq == Find(hyphened_name, "=")
          name_size == (eq - 1) - hyphens
      IN  IF eq = 0
          THEN split_loop(nmd, i + 1,
                   [split |-> Append(acc.split, [str |-> hyphened_name, val |-> FALSE]),
                    faults |-> acc.faults])
          ELSE IF ~(name_size = 1 \/ hyphens >= 2)
          THEN split_loop(nmd, i + 1,
                   [split |-> acc.split,
                    faults |-> Append(acc.faults,
                        Msg("expanding single-hyphen arguments can't have value", <<hyphened_name>>))])
          ELSE split_loop(nmd, i + 1,
                   [split |-> acc.split
                              \o <<[str |-> SubSeq(hyphened_name, 1, eq - 1), val |-> FALSE],
                                   [str |-> SubstrFrom(hyphened_name, eq), val |-> TRUE]>>,
                    faults |-> acc.faults])

split_equations(nmd) == split_loop(nmd, 1, [split |-> <<>>, faults |-> <<>>])

\* the value goes to the first entry
set_back_first(acc, v) ==
    IF acc.args = <<>> THEN [acc EXCEPT !.no_back = TRUE]
    ELSE [acc EXCEPT !.args[1].value = Some(v)]

\* args.back().second = v; on an empty vector back() is undefined behaviour,
\* recorded in no_back
set_back(acc, v) ==
    IF acc.args = <<>> THEN [acc EXCEPT !.no_back = TRUE]
    ELSE [acc EXCEPT !.args[Len(acc.args)].value = Some(v)]

\* a one-hyphen token that opens no entry
expand_none(name) == <<>>

\* a bundle kept as one entry of its whole name
expand_whole(name) == <<[name |-> name, value |-> None]>>

\* for (char c: name) args.emplace_back(std::string(1, c), optional<std::string>())
expand(name) == [k \in 1..Len(name) |-> [name |-> <<name[k]>>, value |-> None]]

RECURSIVE assign_loop(_, _, _)
assign_loop(split, i, acc) ==
    IF i > Len(split) THEN acc
    ELSE
      LET hyphened_name == split[i].str
          certainly_value == split[i].val
          hyphens == count_hyphens(hyphened_name)
          name == SubstrFrom(hyphened_name, hyphens)
      IN  IF certainly_value
          THEN assign_loop(split, i + 1, set_back(acc, hyphened_name))
          ELSE IF hyphens = 2
          THEN assign_loop(split, i + 1,
                   [acc EXCEPT
                      !.args = Append(@, [name |-> name, value |-> None]),
                      !.faults = IF Len(name) >= 2 THEN @
                                 ELSE Append(@, Msg("single character parameter must have exactly one hyphen",
                                                    <<hyphened_name>>))])
          ELSE IF hyphens = 1
          THEN IF name # <<>> /\ isdigit(name[1])
               THEN assign_loop(split, i + 1, set_back(acc, hyphened_name))
               ELSE assign_loop(split, i + 1,
                        [acc EXCEPT !.args = @ \o expand(name)])
          ELSE IF hyphens = 0
          THEN assign_loop(split, i + 1, set_back(acc, name))
          ELSE assign_loop(split, i + 1, acc)

assign_named_values(split) ==
    assign_loop(split, 1, [args |-> <<>>, faults |-> <<>>, no_back |-> FALSE])

RECURSIVE duplicate_loop(_, _, _, _)
\* the double loop of parse over _named, i outer and j < i inner
duplicate_loop(nmd, i, j, faults) ==
    IF i > Len(nmd) THEN faults
    ELSE IF j >= i THEN duplicate_loop(nmd, i + 1, 1, faults)
    ELSE duplicate_loop(nmd, i, j + 1,
             IF nmd[i].name # nmd[j].name THEN faults
             ELSE Append(faults, Msg("multiple occurrences of argument ",
                                     <<prepend_hyphens(nmd[i].name)>>)))

\* only an entry and the entry right before it are compared
duplicate_faults_adjacent(nmd) ==
    SelectSeq([k \in 1..Len(nmd) |->
                  Msg("multiple occurrences of argument ", <<prepend_hyphens(nmd[k].name)>>)],
              LAMBDA f : \E k \in 2..Len(nmd) :
                  /\ nmd[k].name = nmd[k - 1].name
                  /\ f.items = <<prepend_hyphens(nmd[k].name)>>)

duplicate_faults(nmd) == duplicate_loop(nmd, 1, 1, <<>>)

(***************************************************************************)
(* The state: the fields of the one _matcher of a run, the process around  *)
(* it, and a record of what the run has done so far.                       *)
(***************************************************************************)
VARIABLES
    argv,               \* the tokens after the executable name
    positional,         \* _matcher::_positional
    named,              \* _matcher::_named: <<[name, value]>>
    queried,            \* _matcher::_queried
    deferred_error,     \* _matcher::_deferred_error
    main_argc,          \* _matcher::_main_argc
    space_assignment,   \* _matcher::_space_assignment
    strict,             \* _matcher::_strict
    help_flag,          \* _matcher::_help_flag
    pc,                 \* "start" before the constructor ran, then "running"
    exited,             \* exit() was called
    exit_code,          \* its argument
    err,                \* what was written to std::cerr, in order
    ret,                \* what the latest declaration returned
    decls,              \* the declarations made so far, in order
    raised,             \* every failed deferred_assert so far: <<[id, msg]>>
    checks,             \* what _matcher::check did beyond its early return
    no_back,            \* back() was called on an empty vector
    fired_argc          \* the main_argc handed to the constructor

vars == <<argv, positional, named, queried, deferred_error, main_argc,
          space_assignment, strict, help_flag, pc, exited, exit_code, err,
          ret, decls, raised, checks, no_back, fired_argc>>

\* the state as one record, threaded through the operators below
State ==
    [positional |-> positional, named |-> named, queried |-> queried,
     deferred_error |-> deferred_error, main_argc |-> main_argc,
     space_assignment |-> space_assignment, strict |-> strict,
     help_flag |-> help_flag, exited |-> exited, exit_code |-> exit_code,
     err |-> err, raised |-> raised, checks |-> checks, no_back |-> no_back]

\* a matcher before parse: the constructor's arguments stored, all else as
\* the member initializers leave it
new_matcher(argc, sa, st) ==
    [positional |-> <<>>, named |-> <<>>, queried |-> <<>>,
     deferred_error |-> first_empty, main_argc |-> argc,
     space_assignment |-> sa, strict |-> st, help_flag |-> FALSE,
     exited |-> FALSE, exit_code |-> 0, err |-> <<>>, raised |-> <<>>,
     checks |-> <<>>, no_back |-> FALSE]

\* exit(code) after writing line to std::cerr
Exit(m, code, line) ==
    [m EXCEPT !.exited = TRUE, !.exit_code = code, !.err = Append(@, line)]

\* _instant_assert; once exit() was called nothing runs any more
instant_assert(m, pass, msg, programmer_side) ==
    IF m.exited \/ pass THEN m
    ELSE Exit(m, failure_code,
              [src |-> IF programmer_side THEN "programmer" ELSE "user", msg |-> msg])

\* a deferred_assert that defers whatever the mode
deferred_assert_any_mode(m, id, pass, msg) ==
    IF m.exited \/ pass THEN m
    ELSE [m EXCEPT !.raised = Append(@, [id |-> id, msg |-> msg]),
                   !.deferred_error = first_set(@, id, msg)]

\* _matcher::deferred_assert
deferred_assert(m, id, pass, msg) ==
    IF m.exited THEN m
    ELSE LET m1 == IF pass THEN m
                   ELSE [m EXCEPT !.raised = Append(@, [id |-> id, msg |-> msg])]
         IN  IF ~m.strict THEN instant_assert(m1, pass, msg, FALSE)
             ELSE IF ~pass
             THEN [m1 EXCEPT !.deferred_error = first_set(@, id, msg)]
             ELSE m1

RECURSIVE fail_all(_, _)
\* the failed deferred_assert(identifier(), ...) calls of one stage, in order
fail_all(m, faults) ==
    IF faults = <<>> THEN m
    ELSE fail_all(deferred_assert(m, id_vector, FALSE, Head(faults)), Tail(faults))

\* tie(named, _positional) = separate_named_positional(raw)
set_positional(m, p) == IF m.exited THEN m ELSE [m EXCEPT !.positional = p]

\* _named = assign_named_values(split)
set_named(m, asg) ==
    IF m.exited THEN m ELSE [m EXCEPT !.named = asg.args, !.no_back = asg.no_back]

\* parse from the result asg of assign_named_values on
parse_assigned(m, asg) == set_named(fail_all(m, asg.faults), asg)

\* parse from the result spl of split_equations on
parse_split(m, spl) ==
    parse_assigned(fail_all(m, spl.faults), assign_named_values(spl.split))

\* parse from the result sep of separate_named_positional on
parse_separated(m, sep) ==
    parse_split(set_positional(fail_all(m, sep.faults), sep.positional),
                split_equations(sep.named))

\* the loop of parse over the pairs of _named
parse_duplicates(m) == fail_all(m, duplicate_faults(m.named))

\* the last statement of parse
\* positional arguments refused when space assignment is off
parse_positional_when_off(m) ==
    IF ~m.space_assignment
    THEN deferred_assert(m, id_vector, m.positional = <<>>,
                         Msg("positional arguments given, but not accepted", <<>>))
    ELSE m

\* the last statement of _matcher::parse
parse_positional(m) ==
    IF m.space_assignment
    THEN deferred_assert(m, id_vector, m.positional = <<>>,
                         Msg("positional arguments given, but not accepted", <<>>))
    ELSE m

parse(m, raw) ==
    parse_positional(parse_duplicates(
        parse_separated(m, separate_named_positional(raw, m.space_assignment))))

\* the named entries no queried identifier contains, in order
invalid_named(m) ==
    SelectSeq(m.named, LAMBDA e : ~\E k \in 1..Len(m.queried) : contains_name(m.queried[k], e.name))

\* the positional indices no queried identifier contains, in order
invalid_positional(m) ==
    SelectSeq([i \in 1..Len(m.positional) |-> i - 1],
              LAMBDA p : ~\E k \in 1..Len(m.queried) : contains_pos(m.queried[k], p))

\* a message that names the first invalid entry only
invalid_named_msg_first(inv) ==
    Msg("invalid argument", <<prepend_hyphens(inv[1].name)>>)

\* the message check_named builds from the invalid entries
invalid_named_msg(inv) ==
    Msg(IF Len(inv) > 1 THEN "invalid arguments" ELSE "invalid argument",
        [k \in 1..Len(inv) |-> prepend_hyphens(inv[k].name)])

\* a message that names the first invalid index only
invalid_positional_msg_first(inv) ==
    Msg("invalid positional argument", <<to_string(inv[1])>>)

\* the message check_positional builds from the invalid indices
invalid_positional_msg(inv) ==
    Msg(IF Len(inv) > 1 THEN "invalid positional arguments" ELSE "invalid positional argument",
        [k \in 1..Len(inv) |-> to_string(inv[k])])

check_named(m) ==
    deferred_assert(m, id_vector, invalid_named(m) = <<>>, invalid_named_msg(invalid_named(m)))

check_positional(m) ==
    deferred_assert(m, id_vector, invalid_positional(m) = <<>>,
                    invalid_positional_msg(invalid_positional(m)))

\* what check did is noted with the countdown it saw
note(m, what) ==
    [m EXCEPT !.checks = Append(@, [what |-> what, countdown |-> m.main_argc])]

\* the end of check: the deferred error is written and the run ends
check_report(m) ==
    IF ~m.deferred_error.empty
    THEN Exit(note(m, "report"), failure_code,
              [src |-> "deferred", msg |-> m.deferred_error.value])
    ELSE m

\* a flush that validates and reports before it looks at the help flag
check_flush_help_last(m) ==
    IF m.help_flag /\ m.deferred_error.empty
    THEN Exit(note(m, "help"), 0, [src |-> "help", msg |-> Msg("Usage:", <<>>)])
    ELSE check_report(check_positional(check_named(note(m, "validate"))))

\* check past its early return
check_flush(m) ==
    IF m.help_flag
    THEN Exit(note(m, "help"), 0, [src |-> "help", msg |-> Msg("Usage:", <<>>)])
    ELSE check_report(check_positional(check_named(note(m, "validate"))))

\* a check without the early return on the countdown
check_every_time(m, dec_main_argc) ==
    IF m.exited THEN m
    ELSE IF ~m.strict
    THEN [m EXCEPT !.main_argc = @ - (IF dec_main_argc THEN 1 ELSE 0)]
    ELSE check_flush([m EXCEPT !.main_argc = @ - (IF dec_main_argc THEN 1 ELSE 0)])

\* _matcher::check
check(m, dec_main_argc) ==
    IF m.exited THEN m
    ELSE LET m1 == [m EXCEPT !.main_argc = @ - (IF dec_main_argc THEN 1 ELSE 0)]
         IN  IF ~m1.strict \/ m1.main_argc > 0 THEN m1 ELSE check_flush(m1)

\* a lookup that gives the last positional token for an index beyond it
locate_clamped(m, id) ==
    IF has_value(id.pos) /\ m.positional # <<>>
    THEN [str |-> m.positional[IF id.pos[1] >= Len(m.positional)
                               THEN Len(m.positional) ELSE id.pos[1] + 1],
          type |-> "string_t"]
    ELSE [str |-> <<>>, type |-> "none_t"]

\* the pair get_and_mark_as_queried returns
locate(m, id) ==
    IF \E i \in 1..Len(m.named) : contains_name(id, m.named[i].name)
    THEN LET i == CHOOSE i \in 1..Len(m.named) :
                      /\ contains_name(id, m.named[i].name)
                      /\ \A j \in 1..(i - 1) : ~contains_name(id, m.named[j].name)
         IN  IF has_value(m.named[i].value)
             THEN [str |-> m.named[i].value[1], type |-> "string_t"]
             ELSE [str |-> <<>>, type |-> "bool_t"]
    ELSE IF has_value(id.pos)
    THEN IF id.pos[1] >= Len(m.positional)
         THEN [str |-> <<>>, type |-> "none_t"]
         ELSE [str |-> m.positional[id.pos[1] + 1], type |-> "string_t"]
    ELSE [str |-> <<>>, type |-> "none_t"]

\* the first statement of get_and_mark_as_queried
assert_positional_allowed(m, id) ==
    IF m.space_assignment
    THEN instant_assert(m, ~has_value(id.pos),
             Msg("positional argument used with space assignement enabled", <<>>), TRUE)
    ELSE m

\* its loop over _queried
assert_no_overlap(m, id) ==
    instant_assert(m, ~\E k \in 1..Len(m.queried) : overlaps(m.queried[k], id),
                   Msg("double query for argument ", <<longer(id)>>), TRUE)

\* if (_strict) _queried.push_back(id)
mark_as_queried(m, id) ==
    IF m.exited \/ ~m.strict THEN m ELSE [m EXCEPT !.queried = Append(@, id)]

located(m, id) == [m |-> m, elem |-> locate(m, id)]

\* returns the state after the call and the pair returned
get_and_mark_as_queried(m, id) ==
    located(mark_as_queried(assert_no_overlap(assert_positional_allowed(m, id), id), id), id)

help_id == id_names(<<"h">>, <<"h", "e", "l", "p">>)

\* _help_flag = get_and_mark_as_queried(...).second != arg_type::none_t
set_help_flag(q) ==
    IF q.m.exited THEN q.m ELSE [q.m EXCEPT !.help_flag = (q.elem.type # "none_t")]

\* _matcher::_matcher(argc, argv, main_argc, space_assignment, strict); the
\* three flags are already in m
\* a constructor that does not ask for the help flag
matcher_construct_no_help(m, raw) == check(parse(m, raw), FALSE)

matcher_construct(m, raw) ==
    check(set_help_flag(get_and_mark_as_queried(parse(m, raw), help_id)), FALSE)

(***************************************************************************)
(* Integer types and std::stoll.  long long has LLBits bits; a target type *)
(* T is [kind, signed, bits].                                              *)
(***************************************************************************)
RECURSIVE Pow2(_)
Pow2(n) == IF n = 0 THEN 1 ELSE 2 * Pow2(n - 1)

\* std::numeric_limits<T>::lowest() and max()
type_min(T) == IF T.signed THEN -Pow2(T.bits - 1) ELSE 0
type_max(T) == IF T.signed THEN Pow2(T.bits - 1) - 1 ELSE Pow2(T.bits) - 1

long_long == [kind |-> "int", signed |-> TRUE, bits |-> LLBits]
unsigned_long_long == [kind |-> "int", signed |-> FALSE, bits |-> LLBits]
string_type == [kind |-> "string", signed |-> FALSE, bits |-> 0]
long_double == [kind |-> "float", signed |-> TRUE, bits |-> 0]

\* (T) value: the value modulo 2^bits, read in T's range
cast(T, v) ==
    LET r == v % Pow2(T.bits)
    IN  IF T.signed /\ r >= Pow2(T.bits - 1) THEN r - Pow2(T.bits) ELSE r

\* min <= value && value <= max after the usual arithmetic conversions: an
\* unsigned T of long long's rank converts value to T, any other T is
\* converted to long long
in_limits(T, v) ==
    IF ~T.signed /\ T.bits = LLBits
    THEN type_min(T) <= cast(T, v) /\ cast(T, v) <= type_max(T)
    ELSE type_min(T) <= v /\ v <= type_max(T)

to_string_ll(v) == IF v < 0 THEN <<"-">> \o to_string(-v) ELSE to_string(v)

RECURSIVE skip_spaces(_, _)
\* the place (from 1) of the first character of s at or after i that is no space
skip_spaces(s, i) ==
    IF i <= Len(s) /\ s[i] = " " THEN skip_spaces(s, i + 1) ELSE i

RECURSIVE digits_end(_, _)
\* the place after the run of digits of s that starts at i
digits_end(s, i) ==
    IF i <= Len(s) /\ isdigit(s[i]) THEN digits_end(s, i + 1) ELSE i

RECURSIVE digits_value(_, _, _, _)
\* the number the digits s[i..j-1] spell, stopping to grow beyond cap
digits_value(s, i, j, acc) ==
    IF i >= j THEN acc
    ELSE IF acc > type_max(unsigned_long_long) THEN acc
    ELSE digits_value(s, i + 1, j, 10 * acc + DigitValue(s[i]))

\* std::stoll(s, &last): [status, value, last]
stoll(s) ==
    LET b == skip_spaces(s, 1)
        neg == b <= Len(s) /\ s[b] = "-"
        d == IF b <= Len(s) /\ s[b] \in {"-", "+"} THEN b + 1 ELSE b
        e == digits_end(s, d)
        mag == digits_value(s, d, e, 0)
        v == IF neg THEN -mag ELSE mag
    IN  IF e = d THEN [status |-> "invalid_argument", value |-> 0, last |-> 0]
        ELSE IF v < type_min(long_long) \/ v > type_max(long_long)
        THEN [status |-> "out_of_range", value |-> 0, last |-> 0]
        ELSE [status |-> "ok", value |-> v, last |-> e - 1]

(***************************************************************************)
(* fire::arg: [id, int_value, float_value, string_value].  Each operator   *)
(* returns the state after the call and the value returned.                *)
(***************************************************************************)
arg(id) == [id |-> id, int_value |-> None, float_value |-> None, string_value |-> None]
arg_int(id, v) == [arg(id) EXCEPT !.int_value = Some(v)]
arg_float(id, v) == [arg(id) EXCEPT !.float_value = Some(v)]
arg_string(id, v) == [arg(id) EXCEPT !.string_value = Some(v)]

\* only an integer default counts as a default
has_default_int(a) == has_value(a.int_value)

\* _int_value.has_value() || _float_value.has_value() || _string_value.has_value()
has_default(a) ==
    has_value(a.int_value) \/ has_value(a.float_value) \/ has_value(a.string_value)

\* the deferred_assert that opens the three _get: not a flag without value
must_have_value(q, a) ==
    [m |-> deferred_assert(q.m, a.id, q.elem.type # "bool_t",
                           Msg("argument must have value", <<help(a.id)>>)),
     elem |-> q.elem]

\* catch(std::out_of_range &)
stoll_range(m, a, str, st) ==
    IF st.status = "out_of_range"
    THEN deferred_assert(m, a.id, FALSE, Msg("value out of range", <<str>>))
    ELSE m

\* the string_t branch of _get<long long>, st what stoll made of the string
stoll_checked(m, a, str, st) ==
    deferred_assert(stoll_range(m, a, str, st), a.id,
                    st.status # "invalid_argument" /\ st.last = Len(str),
                    Msg("value is not an integer", <<str>>))

long_long_result(q, a, st) ==
    IF q.elem.type = "string_t"
    THEN [m |-> stoll_checked(q.m, a, q.elem.str, st), v |-> Some(st.value)]
    ELSE [m |-> q.m, v |-> a.int_value]

long_long_of(q, a) == long_long_result(q, a, stoll(q.elem.str))

\* arg::_get<long long>
get_long_long(m, a) ==
    long_long_of(must_have_value(get_and_mark_as_queried(m, a.id), a), a)

string_result(q, a) ==
    [m |-> q.m, v |-> IF q.elem.type = "string_t" THEN Some(q.elem.str) ELSE a.string_value]

\* arg::_get<std::string>
get_string(m, a) ==
    string_result(must_have_value(get_and_mark_as_queried(m, a.id), a), a)

\* std::stold(s) on the strings of the model, which spell no fraction, no
\* exponent, no "inf" and no "nan": [status, value]
stold(s) ==
    LET b == skip_spaces(s, 1)
        neg == b <= Len(s) /\ s[b] = "-"
        d == IF b <= Len(s) /\ s[b] \in {"-", "+"} THEN b + 1 ELSE b
        e == digits_end(s, d)
        mag == digits_value(s, d, e, 0)
    IN  IF e = d THEN [status |-> "invalid_argument", value |-> 0]
        ELSE [status |-> "ok", value |-> IF neg THEN -mag ELSE mag]

\* the two catch clauses of _get<long double>
stold_checked(m, a, str, st) ==
    IF st.status = "out_of_range"
    THEN deferred_assert(m, a.id, FALSE, Msg("value out of range", <<str>>))
    ELSE IF st.status = "invalid_argument"
    THEN deferred_assert(m, a.id, FALSE, Msg("value is not a real number", <<str>>))
    ELSE m

\* what _get<long double> returns past the try block: the defaults
float_default(a) ==
    IF has_value(a.float_value) THEN a.float_value
    ELSE IF has_value(a.int_value) THEN a.int_value
    ELSE None

long_double_result(q, a, st) ==
    IF q.elem.type = "string_t" /\ st.status = "ok"
    THEN [m |-> q.m, v |-> Some(st.value)]
    ELSE IF q.elem.type = "string_t"
    THEN [m |-> stold_checked(q.m, a, q.elem.str, st), v |-> float_default(a)]
    ELSE [m |-> q.m, v |-> float_default(a)]

long_double_of(q, a) == long_double_result(q, a, stold(q.elem.str))

\* arg::_get<long double>
get_long_double(m, a) ==
    long_double_of(must_have_value(get_and_mark_as_queried(m, a.id), a), a)

\* min <= value && value <= max of the floating-point _get_with_precision:
\* the values of the model are small whole numbers, within every
\* floating-point type
float_in_limits(T, v) == v = v

\* the floating-point _get_with_precision after _get<long double> returned g
narrow_float(g, a, T) ==
    IF ~has_value(g.v) THEN [m |-> g.m, v |-> None]
    ELSE [m |-> deferred_assert(g.m, a.id, float_in_limits(T, g.v[1]),
                                Msg("value out of range", <<to_string_ll(g.v[1])>>)),
          v |-> g.v]

\* the two range checks of the integral _get_with_precision on value
narrow_checked(m, a, T, value) ==
    deferred_assert(
        deferred_assert(m, a.id, T.signed \/ value >= 0,
                        Msg("argument must be positive", <<help(a.id)>>)),
        a.id, in_limits(T, value),
        Msg("value out of range", <<to_string_ll(value)>>))

\* the integral _get_with_precision after _get<long long> returned g
narrow(g, a, T) ==
    IF ~has_value(g.v) THEN [m |-> g.m, v |-> None]
    ELSE [m |-> narrow_checked(g.m, a, T, g.v[1]), v |-> Some(cast(T, g.v[1]))]

\* arg::_get_with_precision<T>, T integral or std::string
get_with_precision(m, a, T) ==
    IF T.kind = "string" THEN get_string(m, a)
    ELSE IF T.kind = "float" THEN narrow_float(get_long_double(m, a), a, T)
    ELSE narrow(get_long_long(m, a), a, T)

\* T()
zero(T) == IF T.kind = "string" THEN [kind |-> "string", val |-> <<>>]
           ELSE [kind |-> T.kind, val |-> 0]

boxed(T, v) == [kind |-> T.kind, val |-> v]

\* _convert after _get_with_precision returned g
converted(g, a, T, dec_main_argc) ==
    [m |-> check(deferred_assert(g.m, a.id, has_value(g.v),
                                 Msg("required argument not provided", <<longer(a.id)>>)),
                 dec_main_argc),
     v |-> IF has_value(g.v) THEN boxed(T, g.v[1]) ELSE zero(T)]

\* arg::_convert<T>
convert(m, a, T, dec_main_argc) ==
    converted(get_with_precision(m, a, T), a, T, dec_main_argc)

\* an optional result that has to be given like a required one
converted_optional_required(g, T, dec_main_argc) ==
    [m |-> check(deferred_assert(g.m, id_vector, has_value(g.v),
                                 Msg("required argument not provided", <<>>)),
                 dec_main_argc),
     v |-> [kind |-> "optional",
            val |-> IF has_value(g.v) THEN Some(boxed(T, g.v[1])) ELSE None]]

\* _convert_optional after _get_with_precision returned g
converted_optional(g, T, dec_main_argc) ==
    [m |-> check(g.m, dec_main_argc),
     v |-> [kind |-> "optional",
            val |-> IF has_value(g.v) THEN Some(boxed(T, g.v[1])) ELSE None]]

\* arg::_convert_optional<T>
convert_optional(m, a, T, dec_main_argc) ==
    converted_optional(
        get_with_precision(
            instant_assert(m, ~has_default(a),
                           Msg("optional argument has default value", <<>>), TRUE),
            a, T),
        T, dec_main_argc)

\* a flag that is true whenever anything was found for it
converted_bool_found(q, a) ==
    [m |-> check(deferred_assert(q.m, a.id, q.elem.type # "string_t",
                                 Msg("flag must not have value", <<help(a.id)>>)),
                 TRUE),
     v |-> [kind |-> "bool", val |-> (q.elem.type # "none_t")]]

\* operator bool after get_and_mark_as_queried returned q
converted_bool(q, a) ==
    [m |-> check(deferred_assert(q.m, a.id, q.elem.type # "string_t",
                                 Msg("flag must not have value", <<help(a.id)>>)),
                 TRUE),
     v |-> [kind |-> "bool", val |-> (q.elem.type = "bool_t")]]

\* arg::operator bool
convert_bool(m, a) ==
    converted_bool(
        get_and_mark_as_queried(
            instant_assert(m, ~has_default(a),
                           Msg("flag parameter must not have default value", <<longer(a.id)>>),
                           TRUE),
            a.id),
        a)

RECURSIVE vector_loop(_, _, _, _)
\* ret.push_back(c) and the next turn of the loop
vector_push(c, i, T, acc) == vector_loop(c.m, i + 1, T, Append(acc, c.v))

\* a loop whose every element counts as a declaration of its own
vector_loop_counting(m, i, T, acc) ==
    IF m.exited \/ i >= Len(m.positional) THEN [m |-> m, v |-> acc]
    ELSE vector_push(convert(m, arg(id_pos(i)), T, TRUE), i, T, acc)

\* the loop of arg::operator std::vector<T> from index i on
vector_loop(m, i, T, acc) ==
    IF m.exited \/ i >= Len(m.positional) THEN [m |-> m, v |-> acc]
    ELSE vector_push(convert(m, arg(id_pos(i)), T, FALSE), i, T, acc)

\* operator std::vector<T> after its loop returned l
converted_vector(l) == [m |-> check(l.m, TRUE), v |-> [kind |-> "vector", val |-> l.v]]

\* arg::operator std::vector<T>
convert_vector(m, T) == converted_vector(vector_loop(m, 0, T, <<>>))

(***************************************************************************)
(* The inputs of the model                                                 *)
(***************************************************************************)
nm_n == <<"n">>
nm_N == <<"N">>
nm_num == <<"n", "u", "m">>
nm_h == <<"h">>
nm_help == <<"h", "e", "l", "p">>

tk_n == <<"-", "n">>
tk_N == <<"-", "N">>
tk_y == <<"-", "y">>
tk_h == <<"-", "h">>
tk_vh == <<"-", "v", "h">>
tk_num == <<"-", "-", "n", "u", "m">>
tk_num_5 == <<"-", "-", "n", "u", "m", "=", "5">>
tk_help_v == <<"-", "-", "h", "e", "l", "p", "=", "v">>
tk_xy == <<"-", "-", "x", "y">>
tk_v == <<"v">>
tk_9 == <<"9">>
tk_m5 == <<"-", "5">>
tk_3n == <<"-", "-", "-", "n">>

\* the command lines of the runs
RunArgvs ==
    { <<>>, <<tk_n>>, <<tk_n, tk_v>>, <<tk_n, tk_m5>>, <<tk_num_5>>, <<tk_num_5, tk_v>>,
      <<tk_v>>, <<tk_v, tk_9>>, <<tk_h>>, <<tk_vh>>, <<tk_help_v>>, <<tk_h, tk_xy>>,
      <<tk_xy>>, <<tk_xy, tk_y>>, <<tk_xy, tk_v>>, <<tk_n, tk_n>>, <<tk_3n>>,
      <<tk_N, tk_n>>, <<tk_num, tk_9>> }

tk_num_v == <<"-", "-", "n", "u", "m", "=", "v">>
tk_num_ab == <<"-", "-", "n", "u", "m", "=", "a", "=", "b">>
tk_num_x == <<"-", "-", "n", "u", "m", "=", "-", "x">>
tk_num_m5 == <<"-", "-", "n", "u", "m", "=", "-", "5">>
tk_a_b == <<"a", "=", "b">>
tk_x == <<"-", "x">>
tk_n_5 == <<"-", "n", "=", "5">>
tk_abc == <<"-", "a", "b", "c">>
tk_a == <<"-", "a">>
tk_b == <<"-", "b">>
tk_ab_c == <<"-", "a", "b", "=", "c">>
tk_hyphen == <<"-">>
tk_hyphens == <<"-", "-">>
tk_empty == <<>>
tk_ab == <<"-", "a", "b">>

\* the tokens of the command lines the parser alone is run on
ParseTokens ==
    { tk_num, tk_num_v, tk_v, tk_num_ab, tk_a_b, tk_num_x, tk_x, tk_num_m5, tk_m5,
      tk_n, tk_n_5, tk_abc, tk_a, tk_b, tk_ab_c, tk_3n, tk_hyphen, tk_hyphens,
      tk_empty, tk_9, tk_xy, tk_h, tk_ab,
      <<"a", "b", "=", "c">>, <<"-", "5", "=", "3">>,
      <<"-", "-", "-", "n", "=", "v">>, <<"-", "=", "v">>,
      <<"-", "a", "a">> }

ParseArgvs == UNION {[1..k -> ParseTokens] : k \in 0..MaxArgs}

\* the decimal strings the integer conversion alone is run on
DecimalStrings ==
    { sign \o ds : sign \in {<<>>, <<"-">>},
                   ds \in UNION {[1..k -> Digits] : k \in 1..MaxDigits} }

\* the integral types a declaration can ask for
IntTypes == {[kind |-> "int", signed |-> sg, bits |-> b] : sg \in BOOLEAN, b \in 2..LLBits}

\* the identifiers the consuming program declares
RunIds ==
    {id_name(nm_n), id_name(nm_N), id_names(nm_n, nm_num), id_pos(0),
     id_name(nm_h), id_name(nm_help)}

RunArgs ==
    {arg(i) : i \in RunIds} \cup {arg_int(id_name(nm_n), 3), arg_int(id_name(nm_h), 3)}

\* the command lines, declarations and types of the runs of one declaration
DeclArgvs ==
    { <<>>, <<tk_n>>, <<tk_num_5>>, <<tk_num_v>>, <<tk_n, tk_m5>>, <<tk_v>>, <<tk_9>>,
      <<tk_xy>>, <<tk_num_5, tk_v>> }

DeclIds == {id_names(nm_n, nm_num), id_pos(0), id_pos(1)}

DeclArgs ==
    UNION { {arg(i), arg_int(i, 3), arg_float(i, 2), arg_string(i, tk_v)} : i \in DeclIds }

DeclTypes == {long_long, long_double, string_type}

(***************************************************************************)
(* Actions                                                                 *)
(***************************************************************************)
\* the state after an operator returned [m, v]
Becomes(r) ==
    /\ positional' = r.m.positional
    /\ named' = r.m.named
    /\ queried' = r.m.queried
    /\ deferred_error' = r.m.deferred_error
    /\ main_argc' = r.m.main_argc
    /\ space_assignment' = r.m.space_assignment
    /\ strict' = r.m.strict
    /\ help_flag' = r.m.help_flag
    /\ exited' = r.m.exited
    /\ exit_code' = r.m.exit_code
    /\ err' = r.m.err
    /\ raised' = r.m.raised
    /\ checks' = r.m.checks
    /\ no_back' = r.m.no_back
    /\ ret' = r.v

no_value == [kind |-> "none", val |-> 0]

\* before init_and_run: a default-constructed matcher and the arguments
\* the constructor will get
Blank(raw, argc, sa, st) ==
    /\ argv = raw
    /\ fired_argc = argc
    /\ space_assignment = sa
    /\ strict = st
    /\ main_argc = argc
    /\ positional = <<>>
    /\ named = <<>>
    /\ queried = <<>>
    /\ deferred_error = first_empty
    /\ help_flag = FALSE
    /\ pc = "start"
    /\ exited = FALSE
    /\ exit_code = 0
    /\ err = <<>>
    /\ ret = no_value
    /\ decls = <<>>
    /\ raised = <<>>
    /\ checks = <<>>
    /\ no_back = FALSE

Init ==
    \E raw \in RunArgvs, argc \in 0..MaxDecls, sa \in BOOLEAN, st \in BOOLEAN :
        Blank(raw, argc, sa, st)

\* init_and_run: fire::_::matcher = fire::_matcher(argc, argv, main_argc, ...)
Construct ==
    /\ pc = "start"
    /\ pc' = "running"
    /\ Becomes([m |-> matcher_construct(State, argv), v |-> no_value])
    /\ UNCHANGED <<argv, decls, fired_argc>>

CanDeclare == pc = "running" /\ ~exited /\ Len(decls) < MaxDecls

Declared(op, a, T) ==
    /\ decls' = Append(decls, [op |-> op, arg |-> a, T |-> T])
    /\ UNCHANGED <<argv, pc, fired_argc>>

\* bool x = fire::arg(...)
DeclareFlag(a) ==
    /\ CanDeclare
    /\ Becomes(convert_bool(State, a))
    /\ Declared("flag", a, [kind |-> "bool", signed |-> FALSE, bits |-> 1])

\* T x = fire::arg(...)
DeclareRequired(a, T) ==
    /\ CanDeclare
    /\ Becomes(convert(State, a, T, TRUE))
    /\ Declared("required", a, T)

\* fire::optional<T> x = fire::arg(...)
DeclareOptional(a, T) ==
    /\ CanDeclare
    /\ Becomes(convert_optional(State, a, T, TRUE))
    /\ Declared("optional", a, T)

\* std::vector<T> x = fire::arg::vector()
DeclareVector(T) ==
    /\ CanDeclare
    /\ Becomes(convert_vector(State, T))
    /\ Declared("vector", arg(id_vector), T)

Next ==
    \/ Construct
    \/ \E a \in RunArgs : DeclareFlag(a)
    \/ \E a \in RunArgs, T \in {long_long, string_type} : DeclareRequired(a, T)
    \/ \E a \in RunArgs : DeclareOptional(a, string_type)
    \/ DeclareVector(string_type)

Spec == Init /\ [][Next]_vars

(***************************************************************************)
(* The parser alone: the constructor on every short command line           *)
(***************************************************************************)
InitParse ==
    \E raw \in ParseArgvs, sa \in BOOLEAN, st \in BOOLEAN : Blank(raw, 1, sa, st)

NextParse == Construct

SpecParse == InitParse /\ [][NextParse]_vars

(***************************************************************************)
(* The integer conversion alone: --num=<decimal string> and one required   *)
(* declaration of num with an integral type                                *)
(***************************************************************************)
InitInt ==
    \E s \in DecimalStrings, st \in BOOLEAN :
        Blank(<<tk_num \o <<"=">> \o s>>, 1, TRUE, st)

NextInt ==
    \/ Construct
    \/ \E T \in IntTypes : DeclareRequired(arg(id_name(nm_num)), T)

SpecInt == InitInt /\ [][NextInt]_vars

(***************************************************************************)
(* One declaration alone, of every kind, with and without a default        *)
(***************************************************************************)
InitDecl ==
    \E raw \in DeclArgvs, argc \in 1..2, sa \in BOOLEAN, st \in BOOLEAN :
        Blank(raw, argc, sa, st)

\* the one declaration of the run
FlagAlone == decls = <<>> /\ \E a \in DeclArgs : DeclareFlag(a)

RequiredAlone == decls = <<>> /\ \E a \in DeclArgs, T \in DeclTypes : DeclareRequired(a, T)

OptionalAlone == decls = <<>> /\ \E a \in DeclArgs, T \in DeclTypes : DeclareOptional(a, T)

NextDecl == Construct \/ FlagAlone \/ RequiredAlone \/ OptionalAlone

SpecDecl == InitDecl /\ [][NextDecl]_vars

(***************************************************************************)
(* Claims                                                                  *)
(***************************************************************************)
\* a token "--N" with N of two or more characters and no '='
IsLongNameToken(t) == count_hyphens(t) = 2 /\ Len(t) >= 4 /\ Find(t, "=") = 0

\* the tables parse builds from the token list raw, and what locate finds
\* in them for the long name of the token t
TablesOf(m, t) ==
    [named |-> m.named, positional |-> m.positional,
     located |-> locate(m, id_name(SubstrFrom(t, 2)))]

\* C1: with space assignment enabled, the token lists ["--N", "V"] and
\* ["--N=V"] give the same named table and the same positional sequence, and
\* locate(N) returns the same pair for both, whatever the value V is (also a
\* V that contains '=' or begins with a hyphen).
C1_SpaceFormEqualsEquationForm ==
    (pc = "running" /\ space_assignment /\ Len(argv) = 2 /\ IsLongNameToken(argv[1]))
        => TablesOf(State, argv[1])
           = TablesOf(parse(new_matcher(fired_argc, TRUE, strict),
                            <<argv[1] \o <<"=">> \o argv[2]>>), argv[1])


\* the run ended on a programmer-side fault
ProgrammerExit == exited /\ err # <<>> /\ err[Len(err)].src = "programmer"

\* the identifiers of two declarations of the run overlap
SecondOverlapsFirst ==
    /\ Len(decls) = 2
    /\ ~decls[1].arg.id.vector /\ ~decls[2].arg.id.vector
    /\ overlaps(decls[1].arg.id, decls[2].arg.id)

\* C2: when the Identifier of the second declaration of a run overlaps the
\* Identifier of the first (a shared short name, long name or positional
\* index), the second declaration ends the run at once with a programmer-side
\* failure, in strict mode and in non-strict mode alike.
C2_OverlapAlwaysFatal ==
    SecondOverlapsFirst => ProgrammerExit /\ exit_code = failure_code

\* the place in raised of the fault the slot has to hold: no fault raised is
\* smaller, and every earlier one is larger
IsFirstSmallest(k) ==
    /\ \A j \in 1..Len(raised) : ~id_less(raised[j].id, raised[k].id)
    /\ \A j \in 1..(k - 1) : id_less(raised[k].id, raised[j].id)

\* C3: in strict mode the Deferred Error Slot is empty exactly as long as no
\* validation has failed, and otherwise holds the one (Identifier, message)
\* pair of the failing validation whose Identifier is smallest among all
\* raised so far, the earliest raised among equally ordered ones; later,
\* larger-ordered failures are discarded.
C3_SlotHoldsFirstSmallest ==
    strict =>
        /\ deferred_error.empty <=> raised = <<>>
        /\ raised # <<>> =>
              \E k \in 1..Len(raised) :
                  /\ IsFirstSmallest(k)
                  /\ deferred_error.order = raised[k].id
                  /\ deferred_error.value = raised[k].msg

\* a later failure with a larger Identifier was discarded, and an earlier
\* one was replaced by a smaller one
C3_Witness ==
    /\ strict
    /\ Len(raised) >= 3
    /\ deferred_error.order = raised[2].id
    /\ id_less(raised[2].id, raised[1].id)
    /\ id_less(raised[2].id, raised[3].id)

\* what deferred_assert leaves alone when it defers
SameButSlot(m1, m2) ==
    [m1 EXCEPT !.deferred_error = first_empty, !.raised = <<>>]
    = [m2 EXCEPT !.deferred_error = first_empty, !.raised = <<>>]

AnyFault == Msg("too many hyphens: ", <<tk_3n>>)

\* C4: in strict mode a failing deferred_assert never ends the run where it
\* is detected (no user-side line is ever written) and changes nothing but
\* the Deferred Error Slot; in non-strict mode the first failing one ends the
\* run at once with the failure status and its message, and the slot stays
\* empty.
C4_DeferredOrInstant ==
    /\ strict =>
          /\ \A k \in 1..Len(err) : err[k].src # "user"
          /\ ~exited =>
                \A id \in RunIds \cup {id_vector} :
                    /\ ~deferred_assert(State, id, FALSE, AnyFault).exited
                    /\ SameButSlot(deferred_assert(State, id, FALSE, AnyFault), State)
                    /\ ~deferred_assert(State, id, FALSE, AnyFault).deferred_error.empty
    /\ ~strict =>
          /\ deferred_error.empty
          /\ raised # <<>> =>
                /\ Len(raised) = 1
                /\ exited /\ exit_code = failure_code
                /\ err = <<[src |-> "user", msg |-> raised[1].msg]>>
          /\ ~exited =>
                /\ deferred_assert(State, id_vector, FALSE, AnyFault).exited
                /\ deferred_assert(State, id_vector, FALSE, AnyFault).exit_code = failure_code
                /\ deferred_assert(State, id_vector, FALSE, AnyFault).deferred_error.empty

\* a validation of a declaration failed in strict mode and the run goes on
C4_Witness ==
    strict /\ decls # <<>> /\ raised # <<>> /\ ~exited /\ ~deferred_error.empty


\* the lines written to std::cerr by the report of the deferred error
DeferredLines == SelectSeq(err, LAMBDA e : e.src = "deferred")

\* a run in strict mode that has made exactly main_argc declarations, none
\* of them cut short by a programmer-side fault
MadeAllDeclarations ==
    strict /\ pc = "running" /\ Len(decls) = fired_argc /\ ~ProgrammerExit

\* while declarations are still to come, check has returned early each time
NothingBeforeCountdownEnds ==
    (strict /\ pc = "running" /\ main_argc > 0) =>
        /\ checks = <<>>
        /\ DeferredLines = <<>>
        /\ exited => ProgrammerExit

\* the flush ran at countdown zero and nowhere else
FlushedAtZero ==
    /\ main_argc = 0
    /\ checks # <<>>
    /\ \A k \in 1..Len(checks) : checks[k].countdown = 0

\* the retained fault was written once and the run ended in failure
ReportedOnce ==
    /\ exited /\ exit_code = failure_code
    /\ DeferredLines = <<[src |-> "deferred", msg |-> deferred_error.value]>>
    /\ err = DeferredLines

\* C5 as stated: in strict mode, for a run that makes exactly main_argc
\* declarations, nothing is validated or reported while the countdown is
\* above zero; the flush happens at the check where the countdown reaches
\* zero, and a retained deferred fault is reported exactly once there, the
\* run ending with the failure status.
C5_FlushAtZeroReports ==
    /\ NothingBeforeCountdownEnds
    /\ MadeAllDeclarations =>
          /\ FlushedAtZero
          /\ ~deferred_error.empty => ReportedOnce

\* C5 as amended: the same, the report of the retained fault being made
\* unless the help flag is present in the named table.
C5_FlushAtZeroReportsUnlessHelp ==
    /\ NothingBeforeCountdownEnds
    /\ MadeAllDeclarations =>
          /\ FlushedAtZero
          /\ (~deferred_error.empty /\ ~help_flag) => ReportedOnce

\* two declarations were due and made, a fault of the first was kept until
\* the check of the second and reported there
C5_Witness ==
    /\ MadeAllDeclarations /\ fired_argc = 2 /\ ~help_flag
    /\ ReportedOnce
    /\ raised[1].id = decls[1].arg.id

IsHelpName(name) == name = nm_h \/ name = nm_help

HelpSupplied == \E i \in 1..Len(named) : IsHelpName(named[i].name)

\* C6: in strict mode, when the named table has an entry "h" or "help", no
\* leftover validation runs and no deferred error is reported, whatever
\* faults were deferred; the check at which the countdown reaches zero ends
\* the run with status 0 after rendering help, and before that only a
\* programmer-side fault ends it.
C6_HelpEndsRunWithSuccess ==
    (strict /\ pc = "running" /\ HelpSupplied) =>
        /\ help_flag
        /\ \A k \in 1..Len(checks) : checks[k].what = "help"
        /\ DeferredLines = <<>>
        /\ main_argc <= 0 =>
              /\ exited /\ exit_code = 0
              /\ err = <<[src |-> "help", msg |-> Msg("Usage:", <<>>)]>>
              /\ checks = <<[what |-> "help", countdown |-> 0]>>
        /\ (exited /\ main_argc > 0) => ProgrammerExit

\* help was asked for inside a bundle or with a value, a fault of a
\* declaration was deferred, and the run ended with status 0
C6_Witness ==
    /\ strict /\ HelpSupplied /\ exited /\ exit_code = 0
    /\ decls # <<>> /\ ~deferred_error.empty
    /\ raised[1].id = decls[1].arg.id

\* the names of the named entries that none of the ids contains, in order
Unclaimed(ids) ==
    SelectSeq([k \in 1..Len(named) |-> named[k].name],
              LAMBDA nme : \A q \in ids : ~contains_name(q, nme))

Hyphened(names) == [k \in 1..Len(names) |-> prepend_hyphens(names[k])]

Ledger == {queried[k] : k \in 1..Len(queried)}

Validated == \E k \in 1..Len(checks) : checks[k].what = "validate"

IsLeftoverFault(f) ==
    f.msg.kind \in {"invalid argument", "invalid arguments",
                    "invalid positional argument", "invalid positional arguments"}

\* C7: in strict mode, when the end-of-run validation finds k >= 1 named
\* entries whose name no ledger Identifier contains and no fault was deferred
\* before it, the run ends exactly once, with the failure status and the one
\* message "invalid argument(s)" listing all k names with their hyphens
\* prepended, and no name that a ledger Identifier contains.
C7_UnknownNamesInOneMessage ==
    (strict /\ Validated /\ Unclaimed(Ledger) # <<>>
            /\ \A k \in 1..Len(raised) : IsLeftoverFault(raised[k])) =>
        /\ exited /\ exit_code = failure_code
        /\ err = <<[src |-> "deferred",
                    msg |-> Msg(IF Len(Unclaimed(Ledger)) > 1
                                THEN "invalid arguments" ELSE "invalid argument",
                                Hyphened(Unclaimed(Ledger)))]>>
        /\ Len(checks) = 2

\* two unknown names, a long and a short one, next to a declared one
C7_Witness ==
    /\ strict /\ Validated /\ exited /\ Len(err) = 1
    /\ err[1].msg = Msg("invalid arguments", <<tk_xy, tk_y>>)


\* the positional indices none of the ids contains, in order
UnclaimedPositional(ids) ==
    SelectSeq([i \in 1..Len(positional) |-> i - 1],
              LAMBDA p : \A q \in ids : ~contains_pos(q, p))

Numbered(indices) == [k \in 1..Len(indices) |-> to_string(indices[k])]

Items(sq) == {sq[k] : k \in 1..Len(sq)}

PositionalFaults ==
    SelectSeq(raised, LAMBDA f : f.msg.kind \in {"invalid positional argument",
                                                 "invalid positional arguments"})

\* the fault check_positional is to raise for the unclaimed indices
UnclaimedPositionalFault ==
    [id |-> id_vector,
     msg |-> Msg(IF Len(UnclaimedPositional(Ledger)) > 1
                 THEN "invalid positional arguments" ELSE "invalid positional argument",
                 Numbered(UnclaimedPositional(Ledger)))]

\* C8 as stated: at the end-of-run validation in strict mode every
\* positional index that no ledger Identifier contains is named in the
\* message that is emitted, in one message with the unclaimed named entries.
C8_UnclaimedPositionalsInEmittedMessage ==
    (strict /\ Validated /\ UnclaimedPositional(Ledger) # <<>>) =>
        /\ exited /\ exit_code = failure_code
        /\ Len(err) = 1 /\ err[1].src = "deferred"
        /\ Items(Numbered(UnclaimedPositional(Ledger))) \subseteq Items(err[1].msg.items)
        /\ Items(Hyphened(Unclaimed(Ledger))) \subseteq Items(err[1].msg.items)

\* C8 as amended: at the end-of-run validation in strict mode all positional
\* indices that no ledger Identifier contains are joined, in order, in one
\* fault "invalid positional argument(s)" of their own, raised last and
\* once; the run ends with the failure status and one message, which is
\* that fault's exactly when every fault raised before it has an Identifier
\* ordered above the plain Identifier's.
C8_UnclaimedPositionalsInOneFault ==
    (strict /\ Validated /\ UnclaimedPositional(Ledger) # <<>>) =>
        /\ exited /\ exit_code = failure_code
        /\ Len(err) = 1 /\ err[1].src = "deferred"
        /\ PositionalFaults = <<UnclaimedPositionalFault>>
        /\ raised[Len(raised)] = UnclaimedPositionalFault
        /\ (err[1].msg = UnclaimedPositionalFault.msg) <=>
              \A k \in 1..(Len(raised) - 1) : id_less(id_vector, raised[k].id)

\* two unclaimed positional tokens are reported together, a fault of a
\* named declaration raised before them giving way
C8_Witness ==
    /\ strict /\ Validated /\ exited /\ Len(err) = 1
    /\ err[1].msg = Msg("invalid positional arguments", <<to_string(0), to_string(1)>>)
    /\ Len(raised) > 1

\* an unclaimed positional token next to an unknown name goes unreported
C8_WitnessDiscarded ==
    /\ strict /\ Validated /\ exited /\ Len(err) = 1
    /\ UnclaimedPositional(Ledger) # <<>>
    /\ err[1].msg.kind = "invalid argument"

NotAccepted == Msg("positional arguments given, but not accepted", <<>>)

Refused == \E k \in 1..Len(raised) : raised[k].msg = NotAccepted

\* C9 as stated: positional tokens are refused exactly when space assignment
\* is disabled; with space assignment enabled a non-empty positional
\* sequence raises no such fault.
C9_RefusedWhenSpaceAssignmentOff ==
    (pc = "running" /\ positional # <<>>) => (Refused <=> ~space_assignment)

\* C9 as amended: positional tokens are refused exactly when space
\* assignment is enabled; with space assignment disabled a non-empty
\* positional sequence raises no such fault, and with it enabled the fault
\* is missing only where a non-strict run has ended on an earlier fault.
C9_RefusedWhenSpaceAssignmentOn ==
    pc = "running" =>
        /\ Refused => (space_assignment /\ positional # <<>>)
        /\ (space_assignment /\ positional # <<>> /\ ~Refused) =>
              (~strict /\ exited /\ raised # <<>>)
        /\ (Refused /\ ~strict) =>
              (exited /\ exit_code = failure_code /\ err = <<[src |-> "user", msg |-> NotAccepted]>>)

\* a value after a bundle lands in the positional sequence and is refused
C9_Witness ==
    /\ pc = "running" /\ space_assignment /\ strict
    /\ positional # <<>> /\ named # <<>> /\ Refused

\* the decimal string after "--num="
Operand == SubSeq(argv[1], Len(tk_num) + 2, Len(argv[1]))

RECURSIVE Magnitude(_)
Magnitude(ds) ==
    IF ds = <<>> THEN 0
    ELSE 10 * Magnitude(SubSeq(ds, 1, Len(ds) - 1)) + DigitValue(ds[Len(ds)])

\* the integer a decimal string denotes
Numeral(s) == IF s[1] = "-" THEN -Magnitude(Tail(s)) ELSE Magnitude(s)

RangeFaults ==
    SelectSeq(raised, LAMBDA f : f.msg.kind \in {"value out of range",
                                                 "argument must be positive"})

\* C10: for every integral target type and every decimal string, a value
\* within [min, max] of the type is returned exactly and without a fault,
\* and a value outside raises an out-of-range fault ("must be positive" for
\* a negative value into an unsigned type).
C10_ExactInRangeFaultOutside ==
    (pc = "running" /\ Len(decls) = 1) =>
        IF type_min(decls[1].T) <= Numeral(Operand) /\ Numeral(Operand) <= type_max(decls[1].T)
        THEN ret = [kind |-> "int", val |-> Numeral(Operand)] /\ raised = <<>>
        ELSE RangeFaults # <<>>


\* the fault _convert raises for a declaration without a value
NotProvided(a) == Msg("required argument not provided", <<longer(a.id)>>)

IsRaised(msg) == \E k \in 1..Len(raised) : raised[k].msg = msg

\* the one declaration of the run, required, found nothing on the command
\* line: no named entry of its names, no positional token at its index
RequiredAbsent ==
    /\ Len(decls) = 1 /\ decls[1].op = "required" /\ ~ProgrammerExit
    /\ \A k \in 1..Len(named) : ~contains_name(decls[1].arg.id, named[k].name)
    /\ \A p \in 0..(Len(positional) - 1) : ~contains_pos(decls[1].arg.id, p)

\* the value of a default as the declaration returns it
DefaultOf(a) ==
    IF has_value(a.int_value) THEN a.int_value[1]
    ELSE IF has_value(a.float_value) THEN a.float_value[1]
    ELSE a.string_value[1]

\* C11: a required declaration whose locate result is absent raises
\* "required argument not provided" when no default was declared; when a
\* default of any kind (integer, float or string) was declared it resolves
\* to that default and the fault is not raised.
C11_AbsentFallsBackToDefault ==
    RequiredAbsent =>
        IF has_default(decls[1].arg)
        THEN /\ ~IsRaised(NotProvided(decls[1].arg))
             /\ ret.val = DefaultOf(decls[1].arg)
        ELSE IsRaised(NotProvided(decls[1].arg))


\* the first declaration of the run asked for all positionals and returned
VectorDeclaredFirst ==
    strict /\ decls # <<>> /\ decls[1].op = "vector" /\ ~(Len(decls) = 1 /\ ProgrammerExit)

\* C12: converting a vector declaration over N positional tokens adds
\* exactly one entry to the Query Ledger, the vector sentinel; no per-index
\* positional Identifier is recorded, and the one entry claims every index
\* 0..N-1 at the end-of-run validation.
C12_VectorIsOneSentinelEntry ==
    (VectorDeclaredFirst /\ Len(decls) = 1) =>
        /\ queried = <<help_id, id_vector>>
        /\ \A k \in 1..Len(queried) : ~has_value(queried[k].pos)
        /\ PositionalFaults = <<>>


\* a token "-c" with c a character of a name: no digit, no '-', no '='
IsLetterToken(t) == Len(t) = 2 /\ t[1] = "-" /\ t[2] \notin Digits \cup {"-", "="}

\* the token "-c1...ck" for the tokens "-c1" ... "-ck"
Bundle(tokens) == <<"-">> \o [i \in 1..Len(tokens) |-> tokens[i][2]]

\* the tables parse leaves for the single token "-c1...ck"
Bundled == parse(new_matcher(fired_argc, space_assignment, strict), <<Bundle(argv)>>)

\* the flag declaration of character c, made next in the run
FlagOf(c) == convert_bool(State, arg(id_name(<<c>>)))

\* the flag declaration of c ends the run as a programmer-side fault
DoubleQuery(c) ==
    /\ FlagOf(c).m.exited
    /\ FlagOf(c).m.exit_code = failure_code
    /\ FlagOf(c).m.err = <<[src |-> "programmer",
                            msg |-> Msg("double query for argument ", <<longer(id_name(<<c>>))>>)]>>

\* k value-less entries c1..ck in order and no positional token, both for
\* the k tokens and for the one bundle
SameFlagTables ==
    /\ named = [i \in 1..Len(argv) |-> [name |-> <<argv[i][2]>>, value |-> None]]
    /\ positional = <<>>
    /\ Bundled.named = named
    /\ Bundled.positional = positional
    /\ raised = <<>> /\ Bundled.raised = <<>>

\* two or more tokens, no two the same, were parsed
ParsedDistinct ==
    /\ pc = "running"
    /\ Len(argv) >= 2
    /\ \A i \in 1..Len(argv) : \A j \in 1..Len(argv) : i # j => argv[i] # argv[j]

\* C13 as stated: for distinct non-digit name characters c1..ck, k >= 2, the
\* token "-c1...ck" and the tokens "-c1" ... "-ck" give the same named table
\* of k value-less entries and the same empty positional sequence, and each
\* of the k flags queried on its own resolves to true.
C13_BundleEqualsSingleFlags ==
    (ParsedDistinct /\ \A i \in 1..Len(argv) : IsLetterToken(argv[i])) =>
        /\ SameFlagTables
        /\ \A i \in 1..Len(argv) :
              /\ ~DoubleQuery(argv[i][2])
              /\ FlagOf(argv[i][2]).v = [kind |-> "bool", val |-> TRUE]

\* C13 as amended: the same tables; each flag other than the reserved "h"
\* resolves to true when queried, without a fault of its own, and a
\* declaration of "h" ends a strict run as a double query.
C13_BundleEqualsSingleLetterFlags ==
    (ParsedDistinct /\ \A i \in 1..Len(argv) : IsLetterToken(argv[i])) =>
        /\ SameFlagTables
        /\ \A i \in 1..Len(argv) :
              IF argv[i] = tk_h /\ strict
              THEN DoubleQuery(argv[i][2])
              ELSE /\ ~DoubleQuery(argv[i][2])
                   /\ \A k \in 1..Len(FlagOf(argv[i][2]).m.raised) :
                         FlagOf(argv[i][2]).m.raised[k].id # id_name(<<argv[i][2]>>)
                   /\ FlagOf(argv[i][2]).v = [kind |-> "bool", val |-> TRUE]

\* "-a" "-b" was parsed with space assignment enabled: "-b" was not taken
\* as the value of a
C13_Witness ==
    /\ pc = "running" /\ argv = <<tk_a, tk_b>> /\ space_assignment
    /\ Bundle(argv) = tk_ab
    /\ Len(named) = 2


\* a token "-d..." with d a digit
IsHyphenDigit(t) == Len(t) >= 2 /\ t[1] = "-" /\ t[2] \in Digits

\* "-c" "-d..." was parsed with space assignment enabled
FlagThenHyphenDigit ==
    /\ pc = "running" /\ space_assignment
    /\ Len(argv) = 2 /\ IsLetterToken(argv[1]) /\ IsHyphenDigit(argv[2])

\* the one declaration of the run is a required long long of the name of
\* the first token
IntegerOfFirstToken ==
    /\ Len(decls) = 1 /\ decls[1].op = "required" /\ decls[1].T = long_long
    /\ contains_name(decls[1].arg.id, <<argv[1][2]>>)

\* C14: with space assignment enabled, a hyphen-digit token such as "-5"
\* that follows a value-less short-name token "-n" is attached verbatim as
\* the value of entry n, making no named entry and no positional entry of
\* its own, and an integer declaration of n resolves to the negative number
\* without a fault.
C14_HyphenDigitIsValue ==
    FlagThenHyphenDigit =>
        /\ named = <<[name |-> <<argv[1][2]>>, value |-> Some(argv[2])]>>
        /\ positional = <<>>
        /\ IntegerOfFirstToken =>
              /\ ret = [kind |-> "int", val |-> Numeral(argv[2])]
              /\ raised = <<>>
              /\ ~exited

\* "-n" "-5" and a required integer n: the declaration returned -5
C14_Witness ==
    /\ FlagThenHyphenDigit /\ IntegerOfFirstToken
    /\ argv = <<tk_n, tk_m5>>
    /\ ret = [kind |-> "int", val |-> -5]


\* the place of the first '=' of a token, 0 when it has none
EqualsAt(t) ==
    IF \E k \in 1..Len(t) : t[k] = "="
    THEN CHOOSE k \in 1..Len(t) : t[k] = "=" /\ \A j \in 1..(k - 1) : t[j] # "="
    ELSE 0

\* "--N=V" "T" was parsed, N a long name and T without a leading hyphen
EquationThenPlain ==
    /\ pc = "running" /\ Len(argv) = 2
    /\ Len(argv[1]) >= 5 /\ argv[1][1] = "-" /\ argv[1][2] = "-" /\ argv[1][3] # "-"
    /\ EqualsAt(argv[1]) >= 5
    /\ argv[2] # <<>> /\ argv[2][1] # "-" /\ EqualsAt(argv[2]) = 0

NameOfFirst == SubSeq(argv[1], 3, EqualsAt(argv[1]) - 1)

ValueOfFirst == SubSeq(argv[1], EqualsAt(argv[1]) + 1, Len(argv[1]))

\* N has the value V and T is positional token 0
EquationAndPositional ==
    /\ named = <<[name |-> NameOfFirst, value |-> Some(ValueOfFirst)]>>
    /\ positional = <<argv[2]>>

\* the faults raised by parsing
ParseFaults ==
    SelectSeq(raised, LAMBDA f : f.id = id_vector /\ ~IsLeftoverFault(f))

\* the one declaration of the run is a required string of N
StringOfFirst ==
    /\ Len(decls) = 1 /\ decls[1].op = "required" /\ decls[1].T = string_type
    /\ contains_name(decls[1].arg.id, NameOfFirst)

\* the run was to make two declarations and made them: a required string
\* of N, then a required string of positional 0
FirstThenPositional ==
    /\ fired_argc = 2 /\ Len(decls) = 2
    /\ decls[1].op = "required" /\ decls[1].T = string_type
    /\ contains_name(decls[1].arg.id, NameOfFirst)
    /\ decls[2] = [op |-> "required", arg |-> arg(id_pos(0)), T |-> string_type]

\* C15 as stated: for the tokens "--N=V" "T", with space assignment enabled
\* or not, T is not taken by the first token; N has the value V and T is
\* positional token 0; a required declaration of N resolves to V and one of
\* positional 0 to T, and no fault is raised in the run.
C15_EquationLeavesPositional ==
    EquationThenPlain =>
        /\ EquationAndPositional
        /\ ParseFaults = <<>>
        /\ StringOfFirst => ret = [kind |-> "string", val |-> ValueOfFirst]
        /\ FirstThenPositional =>
              /\ ret = [kind |-> "string", val |-> argv[2]]
              /\ raised = <<>>
              /\ ~exited

\* C15 as amended: the tables are as stated in both settings and N resolves
\* to V.  With space assignment disabled parsing raises no fault and the
\* declaration of positional 0 resolves to T, the run of the two
\* declarations raising no fault; with it enabled the positional token
\* raises "positional arguments given, but not accepted" at parsing (ending
\* a non-strict run there) and the declaration of positional 0 ends the run
\* as a programmer-side fault.
C15_EquationLeavesPositionalRefusedWhenOn ==
    EquationThenPlain =>
        /\ EquationAndPositional
        /\ StringOfFirst => ret = [kind |-> "string", val |-> ValueOfFirst]
        /\ ~space_assignment =>
              /\ ParseFaults = <<>>
              /\ FirstThenPositional =>
                    /\ ret = [kind |-> "string", val |-> argv[2]]
                    /\ raised = <<>>
                    /\ ~exited
        /\ space_assignment =>
              /\ ParseFaults = <<[id |-> id_vector, msg |-> NotAccepted]>>
              /\ ~strict => (exited /\ decls = <<>> /\ err = <<[src |-> "user", msg |-> NotAccepted]>>)
              /\ FirstThenPositional => ProgrammerExit

\* "--num=5" "v" with space assignment disabled: num and then positional 0
\* were declared and the second declaration returned "v"
C15_Witness ==
    /\ EquationThenPlain /\ ~space_assignment /\ strict
    /\ FirstThenPositional
    /\ ret = [kind |-> "string", val |-> tk_v]

\* the same tokens with space assignment enabled: positional 0 was declared
\* and the run ended on the programmer-side fault
C15_WitnessRefused ==
    EquationThenPlain /\ space_assignment /\ FirstThenPositional /\ ProgrammerExit


Absent == [str |-> <<>>, type |-> "none_t"]

\* the indices at and beyond the end of the positional sequence
Beyond == Len(positional)..(Len(positional) + MaxArgs)

\* C16: locate of a positional Identifier with index i, when the positional
\* sequence has i or fewer elements, returns kind absent with an empty raw
\* value for every token list, the same whatever the sequence holds, and the
\* query that makes it ends no run where positional declarations are
\* allowed.
C16_BeyondPositionalIsAbsent ==
    pc = "running" =>
        \A i \in Beyond :
            /\ locate(State, id_pos(i)) = Absent
            /\ locate([State EXCEPT !.positional = <<>>], id_pos(i)) = Absent
            /\ get_and_mark_as_queried(State, id_pos(i)).elem = Absent
            /\ (~space_assignment /\ ~exited) =>
                  ~get_and_mark_as_queried(State, id_pos(i)).m.exited

\* two positional tokens were given: index 1 is found, index 2 is absent
C16_Witness ==
    /\ pc = "running" /\ ~space_assignment /\ Len(positional) = 2
    /\ locate(State, id_pos(1)) = [str |-> positional[2], type |-> "string_t"]
    /\ locate(State, id_pos(2)) = Absent


\* the one declaration of the run is a flag, and it was no programmer-side
\* fault
FlagDeclared == Len(decls) = 1 /\ decls[1].op = "flag" /\ ~ProgrammerExit

\* what locate finds for the Identifier of the declaration
Found == locate(State, decls[1].arg.id)

MustNotHaveValue == Msg("flag must not have value", <<help(decls[1].arg.id)>>)

\* C17: a flag declaration resolves to true exactly when locate returns
\* flag_present and to false when locate returns absent; when locate returns
\* has_value it raises the user-input fault "must not have value" (ending a
\* non-strict run) and does not resolve to true; otherwise that fault is not
\* raised.
C17_FlagTrueIffPresent ==
    FlagDeclared =>
        /\ ret = [kind |-> "bool", val |-> (Found.type = "bool_t")]
        /\ Found.type = "none_t" => ret.val = FALSE
        /\ Found.type = "string_t" =>
              /\ ret.val = FALSE
              /\ IsRaised(MustNotHaveValue)
              /\ ~strict => (exited /\ exit_code = failure_code
                             /\ err = <<[src |-> "user", msg |-> MustNotHaveValue]>>)
        /\ Found.type # "string_t" => ~IsRaised(MustNotHaveValue)

\* "--num=5" and the flag n|num in strict mode: the fault was deferred and
\* the flag is false
C17_Witness ==
    /\ FlagDeclared /\ strict /\ Found.type = "string_t"
    /\ ret.val = FALSE /\ IsRaised(MustNotHaveValue)


\* the declaration carries a default of some kind
Defaulted(a) == a.int_value # None \/ a.float_value # None \/ a.string_value # None

\* the message of the programmer-side fault of a defaulted flag or optional
ContradictionOf(d) ==
    IF d.op = "flag"
    THEN Msg("flag parameter must not have default value", <<longer(d.arg.id)>>)
    ELSE Msg("optional argument has default value", <<>>)

\* a step that declares a flag, or asks for an optional result, with a default
DeclaresContradiction ==
    /\ Len(decls') = Len(decls) + 1
    /\ decls'[Len(decls')].op \in {"flag", "optional"}
    /\ Defaulted(decls'[Len(decls')].arg)

\* the step ends the run as a programmer-side fault and changes nothing else
EndsAsProgrammerFault ==
    /\ exited' /\ exit_code' = failure_code
    /\ err' = Append(err, [src |-> "programmer", msg |-> ContradictionOf(decls'[Len(decls')])])
    /\ queried' = queried
    /\ deferred_error' = deferred_error
    /\ raised' = raised
    /\ main_argc' = main_argc
    /\ checks' = checks

\* C18: declaring a flag with a default of any kind, or asking for an
\* optional result from a declaration with a default, ends the run at once
\* as a programmer-side fault, in strict and in non-strict mode, before the
\* Identifier is added to the Query Ledger and without a change of the
\* Deferred Error Slot.
C18_DefaultedFlagOrOptionalIsFatal ==
    [][DeclaresContradiction => EndsAsProgrammerFault]_vars

\* a flag with a string default was declared in non-strict mode, or an
\* optional with a float default in strict mode, and the run ended there
C18_Witness ==
    /\ Len(decls) = 1 /\ ProgrammerExit
    /\ \/ ~strict /\ decls[1].op = "flag" /\ decls[1].arg.string_value # None
       \/ strict /\ decls[1].op = "optional" /\ decls[1].arg.float_value # None
    /\ err[Len(err)].msg = ContradictionOf(decls[1])


\* the declaration made by the step
Made == decls'[Len(decls')]

\* a step that asks for an optional result without a default, for an
\* Identifier that locate finds nothing for and that may be queried
DeclaresAbsentOptional ==
    /\ Len(decls') = Len(decls) + 1
    /\ Made.op = "optional" /\ ~Defaulted(Made.arg)
    /\ locate(State, Made.arg.id) = Absent
    /\ ~(space_assignment /\ Made.arg.id.pos # None)
    /\ \A k \in 1..Len(queried) : ~overlaps(queried[k], Made.arg.id)

NoValue == [kind |-> "optional", val |-> None]

\* C19 as stated: an optional declaration with no default whose locate
\* result is absent resolves to "no value", raises no fault and leaves the
\* Deferred Error Slot unchanged, records its Identifier in the ledger and
\* decrements the countdown by one.
C19_AbsentOptionalIsNoValue ==
    [][DeclaresAbsentOptional =>
          /\ ret' = NoValue
          /\ raised' = raised
          /\ deferred_error' = deferred_error
          /\ queried' = Append(queried, Made.arg.id)
          /\ main_argc' = main_argc - 1]_vars

\* the faults the step raised are those of the end-of-run validation
RaisedLeftoversOnly ==
    /\ Len(raised') >= Len(raised)
    /\ SubSeq(raised', 1, Len(raised)) = raised
    /\ \A k \in (Len(raised) + 1)..Len(raised') :
          raised'[k].id = id_vector /\ IsLeftoverFault(raised'[k])

\* C19 as amended: such a declaration resolves to "no value" and decrements
\* the countdown by one; it records its Identifier in the ledger in strict
\* mode and leaves the ledger alone in non-strict mode; it raises no fault of
\* its own, the slot changing only by the faults of the end-of-run
\* validation when its check finds the countdown at zero in strict mode.
C19_AbsentOptionalIsNoValueLedgerWhenStrict ==
    [][DeclaresAbsentOptional =>
          /\ ret' = NoValue
          /\ main_argc' = main_argc - 1
          /\ queried' = IF strict THEN Append(queried, Made.arg.id) ELSE queried
          /\ RaisedLeftoversOnly
          /\ (~strict \/ main_argc' > 0) =>
                /\ raised' = raised
                /\ deferred_error' = deferred_error
                /\ exited' = exited /\ err' = err]_vars

\* an optional n|num was declared over an empty command line in strict
\* mode, one more declaration to come: no value, no fault, the Identifier in
\* the ledger
C19_Witness ==
    /\ strict /\ argv = <<>> /\ Len(decls) = 1 /\ decls[1].op = "optional"
    /\ ret = NoValue /\ raised = <<>> /\ ~exited
    /\ queried = <<help_id, decls[1].arg.id>>
    /\ main_argc = 1 /\ fired_argc = 2

\* the number of leading hyphens of a token
LeadingHyphens(t) ==
    CHOOSE k \in 0..Len(t) :
        /\ \A j \in 1..k : t[j] = "-"
        /\ k = Len(t) \/ t[k + 1] # "-"

\* a named-token candidate: two hyphens, or one hyphen and then a non-digit
IsCandidate(t) ==
    \/ LeadingHyphens(t) = 2
    \/ LeadingHyphens(t) = 1 /\ Len(t) >= 2 /\ t[2] \notin Digits

\* a named token eligible to take a space-assigned value: two hyphens, or one
\* hyphen with a one-character name, and no '='
Eligible(t) ==
    /\ IsCandidate(t) /\ EqualsAt(t) = 0
    /\ LeadingHyphens(t) = 2 \/ Len(t) = 2

\* an eligible token and one more token were parsed with space assignment,
\* the run not ended by a fault of the parser
EligibleThenToken ==
    /\ pc = "running" /\ space_assignment /\ ~exited
    /\ Len(argv) = 2 /\ Eligible(argv[1])

NameOfEligible == SubstrFrom(argv[1], LeadingHyphens(argv[1]))

ConsumedValue(t) ==
    LET h == LeadingHyphens(t)
        eq == EqualsAt(t)
    IN  IF eq > 0
        THEN IF h >= 2 \/ (eq - 1) - h = 1 THEN Some(SubstrFrom(t, eq)) ELSE None
        ELSE IF h = 0 \/ (h = 1 /\ Len(t) >= 2) THEN Some(t)
        ELSE None

C20_WitnessCandidate ==
    /\ EligibleThenToken /\ argv = <<tk_n, tk_xy>>
    /\ Len(named) = 2 /\ named[1].value = None /\ named[2].value = None
    /\ positional = <<>>

\* the tokens of the command line that are not named-token candidates
NotCandidates == SelectSeq(argv, LAMBDA t : ~IsCandidate(t))

\* the tables were built: the constructor ran and no fault ended the run
Parsed == pc = "running" /\ ~exited

\* C21: a token is a named-token candidate if and only if it has exactly two
\* leading hyphens, or exactly one and then a character that is not a digit;
\* every other token (a lone "-", a hyphen-digit token, a token with more
\* than two hyphens, a token without a hyphen) is tentatively positional:
\* without space assignment the positional sequence is exactly the tokens
\* that are not candidates, in order, and with it no candidate is positional
\* and every positional token is one of them.
C21_CandidateIffTwoOrOneNonDigit ==
    Parsed =>
        /\ ~space_assignment => positional = NotCandidates
        /\ \A k \in 1..Len(positional) : ~IsCandidate(positional[k])
        /\ Len(positional) <= Len(NotCandidates)
        /\ \A k \in 1..Len(argv) :
              IsCandidate(argv[k]) =>
                  ~\E j \in 1..Len(positional) : positional[j] = argv[k]

\* "---n" "-x" was parsed without space assignment: the token of three
\* hyphens is positional and -x is a named entry
C21_Witness ==
    /\ Parsed /\ ~space_assignment /\ argv = <<tk_3n, tk_x>>
    /\ positional = <<tk_3n>>
    /\ named = <<[name |-> <<"x">>, value |-> None]>>

\* the first token of the command line is a named-token candidate with '=',
\* parsed in strict mode
EquationFirst ==
    /\ pc = "running" /\ strict /\ argv # <<>>
    /\ IsCandidate(argv[1]) /\ EqualsAt(argv[1]) > 0

\* what stands between its hyphens and its first '=', and what follows
NamePart == SubSeq(argv[1], LeadingHyphens(argv[1]) + 1, EqualsAt(argv[1]) - 1)

ValuePart == SubSeq(argv[1], EqualsAt(argv[1]) + 1, Len(argv[1]))

CannotSplit ==
    Msg("expanding single-hyphen arguments can't have value", <<argv[1]>>)

\* the named table of the tokens after the first, parsed on their own
RestAlone ==
    parse(new_matcher(fired_argc, space_assignment, strict), Tail(argv)).named

\* the token gives the one entry of its name-part, with its value-part as
\* written, and raises no fault of the split
SplitVerbatim ==
    /\ ~IsRaised(CannotSplit)
    /\ named # <<>>
    /\ named[1] = [name |-> NamePart, value |-> Some(ValuePart)]
    /\ Tail(named) = RestAlone

\* the token raises the fault and gives the table nothing
SplitRefused == IsRaised(CannotSplit) /\ named = RestAlone

\* C22 as stated: every named-token candidate containing '=' is split at its
\* first '=' into a name-part and a value-part attached verbatim to that
\* name's entry, except that a single-hyphen token whose name-part is longer
\* than one character raises a user-input fault and contributes no entry and
\* no value to the named table.
C22_SplitAtFirstEquals ==
    EquationFirst =>
        IF LeadingHyphens(argv[1]) = 1 /\ Len(NamePart) > 1
        THEN SplitRefused ELSE SplitVerbatim

\* C22 as amended: the exception is every single-hyphen token whose
\* name-part is not exactly one character, longer or empty ("-=v"); all
\* other candidates with '=' are split at the first '=' and the value-part is
\* attached verbatim.
C22_SplitAtFirstEqualsUnlessNotOneCharacter ==
    EquationFirst =>
        IF LeadingHyphens(argv[1]) = 1 /\ Len(NamePart) # 1
        THEN SplitRefused ELSE SplitVerbatim

\* "--num=a=b" was parsed: num has the value "a=b"
C22_Witness ==
    /\ EquationFirst /\ argv[1] = tk_num_ab
    /\ named[1] = [name |-> nm_num, value |-> Some(<<"a", "=", "b">>)]

\* "-ab=c" was parsed: the fault is raised and the table is empty
C22_WitnessRefused ==
    /\ EquationFirst /\ argv = <<tk_ab_c>>
    /\ IsRaised(CannotSplit) /\ named = <<>>

\* the names of the entries a token opens: none when it is not a candidate
\* or cannot be split, one per character for a bundle, else its one name
NamesOf(t) ==
    LET h == LeadingHyphens(t)
        eq == EqualsAt(t)
    IN  IF ~IsCandidate(t) THEN <<>>
        ELSE IF eq > 0
        THEN IF h = 1 /\ eq # 3 THEN <<>> ELSE <<SubSeq(t, h + 1, eq - 1)>>
        ELSE IF h = 2 THEN <<SubSeq(t, 3, Len(t))>>
        ELSE [k \in 1..(Len(t) - 1) |-> <<t[k + 1]>>]

RECURSIVE AllNames(_)
AllNames(tokens) ==
    IF tokens = <<>> THEN <<>> ELSE NamesOf(Head(tokens)) \o AllNames(Tail(tokens))

IsMultiple(f) == f.msg.kind = "multiple occurrences of argument "

Multiple(name) ==
    Msg("multiple occurrences of argument ", <<prepend_hyphens(name)>>)

\* the first entry of the named table with the name of entry j
FirstOf(j) == CHOOSE i \in 1..j : named[i].name = named[j].name
                                  /\ \A k \in 1..(i - 1) : named[k].name # named[j].name

\* locate's pair for an entry
PairOf(e) ==
    IF e.value # None THEN [str |-> e.value[1], type |-> "string_t"]
    ELSE [str |-> <<>>, type |-> "bool_t"]

\* C23: after assignment (strict mode, where the parser runs to its end) a
\* "multiple occurrences of argument X" fault is raised if and only if two
\* entries of the named table have equal names, X being the later entry's
\* name with its hyphens, also for a character repeated inside one bundle;
\* the table keeps every entry the tokens open, the later entry beside the
\* earlier one, and locate of the name returns the earlier entry.
C23_MultipleIffEqualNames ==
    (pc = "running" /\ strict) =>
        /\ [k \in 1..Len(named) |-> named[k].name] = AllNames(argv)
        /\ (\E k \in 1..Len(raised) : IsMultiple(raised[k]))
              <=> (\E i, j \in 1..Len(named) : i < j /\ named[i].name = named[j].name)
        /\ \A k \in 1..Len(raised) :
              IsMultiple(raised[k]) =>
                  \E i, j \in 1..Len(named) :
                      /\ i < j /\ named[i].name = named[j].name
                      /\ raised[k].msg = Multiple(named[j].name)
        /\ \A j \in 1..Len(named) :
              /\ FirstOf(j) < j => IsRaised(Multiple(named[j].name))
              /\ named[j].name # <<>> =>
                    locate(State, id_name(named[j].name)) = PairOf(named[FirstOf(j)])

\* "--num=v" "--num=a=b" was parsed: one fault, both entries in the table,
\* locate gives "v"
C23_Witness ==
    /\ pc = "running" /\ strict /\ argv = <<tk_num_v, tk_num_ab>>
    /\ Len(named) = 2 /\ named[2].value = Some(<<"a", "=", "b">>)
    /\ IsRaised(Multiple(nm_num))
    /\ locate(State, id_name(nm_num)) = [str |-> <<"v">>, type |-> "string_t"]

\* "-aa" was parsed: two entries a and the fault for -a
C23_WitnessBundle ==
    /\ pc = "running" /\ strict /\ argv = <<<<"-", "a", "a">>>>
    /\ Len(named) = 2 /\ IsRaised(Multiple(<<"a">>))

\* the Identifiers locate is asked for
QueryIds ==
    {id_names(nm_n, nm_num), id_name(<<"a">>), id_name(<<"x", "y">>),
     id_name(nm_h), id_pos(0), id_pos(1)}

\* the places of the named entries whose name is the short or the long name
\* of id
Matching(id) ==
    {i \in 1..Len(named) : id.short = Some(named[i].name) \/ id.long = Some(named[i].name)}

\* the pair the resolution order gives for id
Resolved(id) ==
    IF Matching(id) # {}
    THEN PairOf(named[CHOOSE i \in Matching(id) : \A j \in Matching(id) : i <= j])
    ELSE IF id.pos # None /\ id.pos[1] < Len(positional)
    THEN [str |-> positional[id.pos[1] + 1], type |-> "string_t"]
    ELSE Absent

\* C24: locate(identifier) returns the first named entry, in command-line
\* order, whose name equals the Identifier's short or long name, as has_value
\* with the attached string or as flag_present without one; only with no such
\* entry the positional token at its index; with neither, absent.  In strict
\* mode the Identifier is the last of the ledger afterwards, for all three
\* outcomes.
C24_LocateNamedThenPositional ==
    (pc = "running" /\ ~exited) =>
        \A id \in QueryIds :
            ~get_and_mark_as_queried(State, id).m.exited =>
                /\ get_and_mark_as_queried(State, id).elem = Resolved(id)
                /\ strict =>
                      get_and_mark_as_queried(State, id).m.queried = Append(queried, id)

\* "-n" "9" was parsed in strict mode without space assignment: n|num is
\* flag_present, index 0 has the value "9", index 1 and xy are absent, and
\* each query puts its Identifier into the ledger
C24_Witness ==
    /\ pc = "running" /\ ~exited /\ strict /\ ~space_assignment
    /\ argv = <<tk_n, tk_9>>
    /\ get_and_mark_as_queried(State, id_names(nm_n, nm_num)).elem
       = [str |-> <<>>, type |-> "bool_t"]
    /\ get_and_mark_as_queried(State, id_pos(0)).elem = [str |-> tk_9, type |-> "string_t"]
    /\ get_and_mark_as_queried(State, id_pos(1)).elem = Absent
    /\ get_and_mark_as_queried(State, id_name(<<"x", "y">>)).elem = Absent
    /\ \A id \in QueryIds \ {id_name(nm_h)} :
          /\ ~get_and_mark_as_queried(State, id).m.exited
          /\ get_and_mark_as_queried(State, id).m.queried = <<help_id, id>>

\* "--num=v" "--num=a=b" was parsed: n|num has the value of the first entry
C24_WitnessValue ==
    /\ pc = "running" /\ ~exited /\ argv = <<tk_num_v, tk_num_ab>>
    /\ get_and_mark_as_queried(State, id_names(nm_n, nm_num)).elem
       = [str |-> tk_v, type |-> "string_t"]

\* the number of entries the tokens before token k open
EntriesBefore(k) == Len(AllNames(SubSeq(argv, 1, k - 1)))

\* token k is a candidate with '=' that is split: its value-part is attached
CarriesValue(k) ==
    IsCandidate(argv[k]) /\ EqualsAt(argv[k]) > 0 /\ NamesOf(argv[k]) # <<>>

\* token k is a continuation: not a candidate, right after an eligible token,
\* with space assignment
Continues(k) ==
    /\ space_assignment /\ k >= 2
    /\ ~IsCandidate(argv[k]) /\ Eligible(argv[k - 1])

\* C25: for every token list and both space-assignment settings, in strict
\* mode, the assignment stage never attaches a value to an empty table: each
\* value-part of a split token is on the entry that token's name-part opened,
\* each continuation (a hyphen-digit token, a token without hyphens) is on
\* the entry opened by the name token right before it, and no attachment
\* found the table empty.
C25_ValueGoesToOpenEntry ==
    (pc = "running" /\ strict) =>
        /\ ~no_back
        /\ \A k \in 1..Len(argv) :
              /\ CarriesValue(k) =>
                    /\ EntriesBefore(k) + 1 <= Len(named)
                    /\ named[EntriesBefore(k) + 1]
                       = [name |-> NamesOf(argv[k])[1],
                          value |-> Some(SubSeq(argv[k], EqualsAt(argv[k]) + 1, Len(argv[k])))]
              /\ Continues(k) =>
                    /\ EntriesBefore(k) >= 1
                    /\ named[EntriesBefore(k)]
                       = [name |-> NamesOf(argv[k - 1])[1],
                          value |-> ConsumedValue(argv[k])]

\* "-n" "-5" was parsed with space assignment in strict mode: the value "-5"
\* is on the entry n
C25_Witness ==
    /\ pc = "running" /\ strict /\ space_assignment /\ ~no_back
    /\ argv = <<tk_n, tk_m5>> /\ Continues(2)
    /\ named = <<[name |-> nm_n, value |-> Some(tk_m5)]>>

\* the last thing check did was to report, at countdown zero
ReportedAtZero ==
    /\ checks # <<>>
    /\ checks[Len(checks)] = [what |-> "report", countdown |-> 0]

\* C26: in strict mode, for a run that makes exactly main_argc declarations
\* (a vector declaration counting as one, whatever the number of positional
\* tokens), if any user-input fault was raised during parsing or during any
\* declaration, the last one included, and no help flag is present, the run
\* ends with the failure status at the check of the last declaration, and not
\* before it; the body of the consuming program is never reached with a
\* non-empty Deferred Error Slot.
C26_FaultEndsRunAtLastCheck ==
    /\ (MadeAllDeclarations /\ raised # <<>> /\ ~HelpSupplied) =>
          /\ ReportedOnce
          /\ ReportedAtZero
    /\ (strict /\ pc = "running" /\ Len(decls) < fired_argc /\ exited) =>
          ProgrammerExit
    /\ (strict /\ pc = "running" /\ Len(decls) = fired_argc /\ ~exited) =>
          deferred_error.empty /\ raised = <<>>

\* a run of two declarations, the last a vector over two positional tokens,
\* with a fault raised: it ended at the check of the vector declaration
C26_Witness ==
    /\ MadeAllDeclarations /\ fired_argc = 2 /\ ~HelpSupplied
    /\ decls[2].op = "vector" /\ Len(positional) = 2
    /\ raised # <<>>
    /\ ReportedOnce /\ ReportedAtZero

\* the Identifier has the short name "h" or the long name "help"
HasHelpName(id) == id.short = Some(nm_h) \/ id.long = Some(nm_help)

\* a step of a strict run that declares such an Identifier
DeclaresHelpName ==
    /\ strict /\ Len(decls') = Len(decls) + 1
    /\ HasHelpName(Made.arg.id)

\* the programmer-side fault the declaration ends with: the double query,
\* unless the declaration is a flag or an optional with a default, which is
\* refused for that before it queries
HelpNameFault ==
    IF Made.op \in {"flag", "optional"} /\ Defaulted(Made.arg)
    THEN ContradictionOf(Made)
    ELSE Msg("double query for argument ", <<longer(Made.arg.id)>>)

\* the help Identifier is the first of the ledger once the constructor ran
HelpInLedger ==
    (strict /\ pc = "running") => (queried # <<>> /\ queried[1] = help_id)

\* no leftover fault names -h or --help
HelpNeverInvalid ==
    \A k \in 1..Len(raised) :
        IsLeftoverFault(raised[k]) =>
            \A j \in 1..Len(raised[k].msg.items) :
                raised[k].msg.items[j] \notin {tk_h, <<"-", "-">> \o nm_help}

====
